---- MODULE Spec2Model ----
(***************************************************************************)
(* Model of improvar (src/improvar/__init__.py): synthesis of random VCF   *)
(* records from a header.  The module models                               *)
(*   calc_multiplicity, data_from_vcf_type, random_base, random_contig,    *)
(*   generate_record and generate_data.                                    *)
(* Random draws are nondeterministic choices.  The value of one Integer,   *)
(* Float, Character or String element is drawn from a two-element sample   *)
(* of the range the code draws from; genotypes, alleles, contigs and       *)
(* positions are drawn from the full set the code draws from.              *)
(* A header is [contigs, info, formats, samples]: contigs maps a contig    *)
(* name (a sequence of characters) to its length, info and formats are the *)
(* ordered field definitions [key, type, number], samples the sample ids.  *)
(***************************************************************************)
EXTENDS Integers, Sequences, FiniteSets, TLC

VARIABLES header, cfg, i, out, assembled, pc, err, call, ret

vars == <<header, cfg, i, out, assembled, pc, err, call, ret>>

(* ------------------------------ bounds --------------------------------- *)
MaxArity == 2
MaxAlleles == 3
MaxCount == 2
MaxNameLen == 2
MaxContigs == 2

(* --------------------------- program constants ------------------------- *)
RandIntLo == 0
RandIntHi == 100

(* bases of random_base *)
bases == {"A", "T", "C", "G", "N"}

(* two members of each element range of data_from_vcf_type *)
IntSamples == {RandIntLo, RandIntHi}
FloatSamples == {"0.0", "0.5"}
CharSamples == {"A", "z"}
StringSamples == {"AAAAAAAAAA", "zzzzzzzzzz"}

(* ----------------------------- field model ----------------------------- *)
(* header "Number": an integer or one of the tokens A, R, ., G *)
IntNumber(k) == [isInt |-> TRUE, n |-> k, tok |-> ""]
TokNumber(t) == [isInt |-> FALSE, n |-> 0, tok |-> t]
Numbers == {IntNumber(k) : k \in 0..MaxArity} \cup {TokNumber(t) : t \in {"A", "R", ".", "G"}}
KnownTypes == {"Integer", "Float", "Flag", "Character", "String"}
Types == KnownTypes \cup {"Other"}

FieldDef(k, t, n) == [key |-> k, type |-> t, number |-> n]
Lookup(defs, key) == defs[CHOOSE j \in 1..Len(defs) : defs[j].key = key]
SectionDefs(hdr, section) == IF section = "fmt" THEN hdr.formats ELSE hdr.info

(* GenotypeOption members, None, and a value that is no member *)
GenotypeOption == {"HOM_REF", "HOM_ALT", "HET"}
GtOpts == GenotypeOption \cup {"None", "hom-var"}

(* results of a call: a returned value or a raised exception *)
Ok(v) == [kind |-> "ok", val |-> v]
Raise(e) == [kind |-> e, val |-> <<>>]

(* --------------------------- calc_multiplicity ------------------------- *)
MultInt(k) == [kind |-> "int", n |-> k]
MultNone == [kind |-> "None", n |-> 0]
MultRaise == [kind |-> "NotImplementedError", n |-> 0]

(* calc_multiplicity with the A and R cases exchanged *)
calc_multiplicity_swapped(key, hdr, alleles, section) ==
  LET header_mult == Lookup(SectionDefs(hdr, section), key).number
  IN IF key = "GT" THEN MultInt(1)
     ELSE IF header_mult.isInt THEN MultInt(header_mult.n)
     ELSE IF header_mult.tok = "A" THEN MultInt(Len(alleles))
     ELSE IF header_mult.tok = "R" THEN MultInt(Len(alleles) - 1)
     ELSE IF header_mult.tok = "." THEN MultNone
     ELSE MultRaise

calc_multiplicity(key, hdr, alleles, section) ==
  LET header_mult == Lookup(SectionDefs(hdr, section), key).number
  IN IF key = "GT" THEN MultInt(1)
     ELSE IF header_mult.isInt THEN MultInt(header_mult.n)
     ELSE IF header_mult.tok = "A" THEN MultInt(Len(alleles) - 1)
     ELSE IF header_mult.tok = "R" THEN MultInt(Len(alleles))
     ELSE IF header_mult.tok = "." THEN MultNone
     ELSE MultRaise

(* --------------------------- data_from_vcf_type ------------------------ *)
(* itertools.combinations_with_replacement(range(lo, hi), r) *)
CombinationsWithReplacement(lo, hi, r) ==
  {s \in [1..r -> lo..(hi - 1)] : \A j \in 1..(r - 1) : s[j] <= s[j + 1]}

(* the orders random.shuffle can leave a list in *)
Shuffles(s) ==
  {[j \in 1..Len(s) |-> s[p[j]]] : p \in {q \in [1..Len(s) -> 1..Len(s)] :
                                           \A a, b \in 1..Len(s) : a # b => q[a] # q[b]}}

(* HetGenotypes drawing the combination from range(len(alleles)) *)
HetGenotypes_from_zero(alleles) ==
  UNION {Shuffles(<<0>> \o c) :
           c \in CombinationsWithReplacement(0, Len(alleles), Len(alleles) - 1)}

HetGenotypes(alleles) ==
  UNION {Shuffles(<<0>> \o c) :
           c \in CombinationsWithReplacement(1, Len(alleles), Len(alleles) - 1)}

(* Genotypes replicating the homozygous calls len(alts) times *)
Genotypes_per_alt(alleles, gt_opts) ==
  IF gt_opts = "HET" THEN HetGenotypes(alleles)
  ELSE IF gt_opts = "HOM_ALT" THEN {[j \in 1..(Len(alleles) - 1) |-> 1]}
  ELSE IF gt_opts = "HOM_REF" THEN {[j \in 1..(Len(alleles) - 1) |-> 0]}
  ELSE CombinationsWithReplacement(0, Len(alleles), Len(alleles))

Genotypes(alleles, gt_opts) ==
  IF gt_opts = "HET" THEN HetGenotypes(alleles)
  ELSE IF gt_opts = "HOM_ALT" THEN {[j \in 1..Len(alleles) |-> 1]}
  ELSE IF gt_opts = "HOM_REF" THEN {[j \in 1..Len(alleles) |-> 0]}
  ELSE CombinationsWithReplacement(0, Len(alleles), Len(alleles))

(* what one pass of the loop body appends for a type that is not Flag *)
Elements(type) ==
  IF type = "Integer" THEN {<<x>> : x \in IntSamples}
  ELSE IF type = "Float" THEN {<<x>> : x \in FloatSamples}
  ELSE IF type = "Character" THEN {<<x>> : x \in CharSamples}
  ELSE IF type = "String" THEN {<<x>> : x \in StringSamples}
  ELSE {<<>>}

(* the loop "for i in range(multiplicity)", from pass j with results so far *)
RECURSIVE ValueLoop(_, _, _, _)
ValueLoop(type, multiplicity, j, results) ==
  IF j >= multiplicity THEN {Ok(results)}
  ELSE IF type = "Flag" THEN {Raise("NotImplementedError")}
  ELSE UNION {ValueLoop(type, multiplicity, j + 1, results \o e) : e \in Elements(type)}

(* data_from_vcf_type rejecting a gt_opts that is no GenotypeOption and not None *)
data_from_vcf_type_strict(key, hdr, alleles, section, gt_opts) ==
  LET multiplicity == calc_multiplicity(key, hdr, alleles, section)
      type == Lookup(SectionDefs(hdr, section), key).type
  IN IF multiplicity.kind = "NotImplementedError" THEN {Raise("NotImplementedError")}
     ELSE IF section = "fmt" /\ key = "GT"
          THEN IF gt_opts \in GenotypeOption \cup {"None"}
               THEN {Ok(gt) : gt \in Genotypes(alleles, gt_opts)}
               ELSE {Raise("ValueError")}
     ELSE IF multiplicity.kind = "None" THEN {Raise("TypeError")}
     ELSE ValueLoop(type, multiplicity.n, 0, <<>>)

data_from_vcf_type(key, hdr, alleles, section, gt_opts) ==
  LET multiplicity == calc_multiplicity(key, hdr, alleles, section)
      type == Lookup(SectionDefs(hdr, section), key).type
  IN IF multiplicity.kind = "NotImplementedError" THEN {Raise("NotImplementedError")}
     ELSE IF section = "fmt" /\ key = "GT" THEN {Ok(gt) : gt \in Genotypes(alleles, gt_opts)}
     ELSE IF multiplicity.kind = "None" THEN {Raise("TypeError")}
     ELSE ValueLoop(type, multiplicity.n, 0, <<>>)

(* ------------------------------ random_base ---------------------------- *)
random_base == bases

(* ------------------------------ random_contig -------------------------- *)
(* A pattern argument is None or a compiled pattern.  Patterns are         *)
(* sequences of literal characters and the wildcard ".".                   *)
NoPattern == [some |-> FALSE, pat |-> <<>>]
Pattern(p) == [some |-> TRUE, pat |-> p]

(* pattern.match(name): the pattern matches at the start of the name *)
Match(p, name) ==
  /\ Len(p) <= Len(name)
  /\ \A j \in 1..Len(p) : p[j] = "." \/ p[j] = name[j]

(* line 159: contigs.difference_update([... if contig_exclude.match(contig)]) *)
ExcludeStep(contigs, contig_exclude) ==
  IF contig_exclude.some
  THEN Ok(contigs \ {c \in contigs : Match(contig_exclude.pat, c)})
  ELSE Ok(contigs)

(* line 163: contigs.intersection_update([... if contig_exclude.match(contig)]): *)
(* the comprehension calls match on contig_exclude for every remaining contig   *)
IncludeStep(contigs, contig_exclude, contig_include) ==
  IF ~contig_include.some THEN Ok(contigs)
  ELSE IF contigs = {} THEN Ok({})
  ELSE IF ~contig_exclude.some THEN Raise("AttributeError")
  ELSE Ok(contigs \cap {c \in contigs : Match(contig_exclude.pat, c)})

ContigOf(hdr, name) == [name |-> name, length |-> hdr.contigs[name]]

(* random_contig without the check that only one filter is set *)
random_contig_unchecked(hdr, contig_exclude, contig_include) ==
  LET kept == IncludeStep(ExcludeStep(DOMAIN hdr.contigs, contig_exclude).val,
                          contig_exclude, contig_include)
  IN IF kept.kind # "ok" THEN {kept}
     ELSE IF Cardinality(kept.val) = 0 THEN {Raise("Exception")}
     ELSE {Ok(ContigOf(hdr, c)) : c \in kept.val}

random_contig(hdr, contig_exclude, contig_include) ==
  IF contig_exclude.some /\ contig_include.some THEN {Raise("ValueError")}
  ELSE LET kept == IncludeStep(ExcludeStep(DOMAIN hdr.contigs, contig_exclude).val,
                               contig_exclude, contig_include)
       IN IF kept.kind # "ok" THEN {kept}
          ELSE IF Cardinality(kept.val) = 0 THEN {Raise("Exception")}
          ELSE {Ok(ContigOf(hdr, c)) : c \in kept.val}

(* ------------------------------ generate_record ------------------------ *)
Keys(defs) == [j \in 1..Len(defs) |-> defs[j].key]
NotEnd(key) == key # "END"

(* record.info[key] = value, record.samples[sample][key] = value *)
Assign(map, key, value) == (key :> value) @@ map

(* "for key in keys: map[key] = data_from_vcf_type(key, record, section)", *)
(* from the j-th key on                                                    *)
RECURSIVE FieldLoop(_, _, _, _, _, _, _)
FieldLoop(hdr, alleles, section, gt_opts, keys, j, map) ==
  IF j > Len(keys) THEN {Ok(map)}
  ELSE UNION {IF r.kind = "ok"
              THEN FieldLoop(hdr, alleles, section, gt_opts, keys, j + 1,
                             Assign(map, keys[j], r.val))
              ELSE {r} :
                r \in data_from_vcf_type(keys[j], hdr, alleles, section, gt_opts)}

(* "for sample in record.samples.iterkeys(): for fmt in header.formats", *)
(* from the j-th sample on                                               *)
RECURSIVE SampleLoop(_, _, _, _, _)
SampleLoop(hdr, alleles, gt_opts, j, map) ==
  IF j > Len(hdr.samples) THEN {Ok(map)}
  ELSE UNION {IF r.kind = "ok"
              THEN SampleLoop(hdr, alleles, gt_opts, j + 1,
                              Assign(map, hdr.samples[j], r.val))
              ELSE {r} :
                r \in FieldLoop(hdr, alleles, "fmt", gt_opts, Keys(hdr.formats), 1, <<>>)}

(* header.new_record(contig, alleles, start) with the fields filled in *)
NewRecord(contig, alleles, start, info, samples) ==
  [contig |-> contig, alleles |-> alleles, start |-> start, info |-> info,
   samples |-> samples]

(* lines 188-199 of generate_record, for a record on contig with alleles and start *)
FillRecord(hdr, contig, alleles, start, gt_opts) ==
  UNION {IF inf.kind # "ok" THEN {inf}
         ELSE {IF smp.kind # "ok" THEN smp
               ELSE Ok(NewRecord(contig.name, alleles, start, inf.val, smp.val)) :
                 smp \in SampleLoop(hdr, alleles, gt_opts, 1, <<>>)} :
           inf \in FieldLoop(hdr, alleles, "info", gt_opts,
                             SelectSeq(Keys(hdr.info), NotEnd), 1, <<>>)}

(* random.randint(1, contig.length): a contig declared without a length  *)
(* has length None in pysam (0 here) and randint raises TypeError        *)
Starts(contig) == 1..contig.length

generate_record(hdr, contig_exclude, contig_include, gt_opts) ==
  UNION {IF c.kind # "ok" THEN {c}
         ELSE IF c.val.length < 1 THEN {Raise("TypeError")}
         ELSE UNION {FillRecord(hdr, c.val, <<ref, alt>>, start, gt_opts) :
                       ref \in random_base, alt \in random_base, start \in Starts(c.val)} :
           c \in random_contig(hdr, contig_exclude, contig_include)}

(* ------------------------------ generate_data -------------------------- *)
(* a sink that puts the newest record first *)
Write_first(sink, record) == <<record>> \o sink

(* parsed_output.write(record) *)
Write(sink, record) == Append(sink, record)

Config(n, gt, excl, incl) ==
  [num_variants |-> n, gt_opts |-> gt, contig_exclude |-> excl, contig_include |-> incl]

Records == generate_record(header, cfg.contig_exclude, cfg.contig_include, cfg.gt_opts)

(* one pass of "for i in range(num_variants)" that writes a record *)
LoopWrite ==
  /\ pc = "loop"
  /\ i < cfg.num_variants
  /\ \E r \in Records :
       /\ r.kind = "ok"
       /\ assembled' = Append(assembled, r.val)
       /\ out' = Write(out, r.val)
  /\ i' = i + 1
  /\ UNCHANGED <<header, cfg, pc, err, call, ret>>

(* one pass in which generate_record raises: the exception leaves generate_data *)
LoopRaise ==
  /\ pc = "loop"
  /\ i < cfg.num_variants
  /\ \E r \in Records :
       /\ r.kind # "ok"
       /\ err' = r.kind
  /\ pc' = "raised"
  /\ UNCHANGED <<header, cfg, i, out, assembled, call, ret>>

(* range(num_variants) is exhausted *)
LoopEnd ==
  /\ pc = "loop"
  /\ i >= cfg.num_variants
  /\ pc' = "done"
  /\ UNCHANGED <<header, cfg, i, out, assembled, err, call, ret>>

(* ------------------------------- headers ------------------------------- *)
GtDef == FieldDef("GT", "String", IntNumber(1))
Header(c, inf, fmt, smp) == [contigs |-> c, info |-> inf, formats |-> fmt, samples |-> smp]
NoCall == [fn |-> "none"]
NoRet == Raise("none")

(* contigs a and b, each absent, without a length (0) or of length 1 *)
RunContigs == UNION {[S -> 0..1] : S \in SUBSET {<<"a">>, <<"b">>}}
RunFilters ==
  {<<NoPattern, NoPattern>>, <<Pattern(<<"a">>), NoPattern>>,
   <<NoPattern, Pattern(<<"a">>)>>, <<Pattern(<<"a">>), Pattern(<<"b">>)>>}

(* runs of several records over a header with the genotype field only *)
PlainRuns ==
  {<<Header(c, <<>>, <<GtDef>>, <<"S1">>), Config(n, gt, f[1], f[2])>> :
     c \in RunContigs, n \in 0..MaxCount, gt \in {"HOM_REF", "HOM_ALT"}, f \in RunFilters}

(* headers with one INFO or FORMAT field of every type and number, and more *)
OneContig == (<<"a">> :> 1)
FieldHeaders ==
  {Header(OneContig, <<FieldDef("DP", t, n)>>, <<GtDef>>, <<"S1">>) :
     t \in Types, n \in Numbers}
  \cup {Header(OneContig, <<>>, <<GtDef, FieldDef("AD", t, n)>>, <<"S1">>) :
          t \in Types, n \in Numbers}
  \cup {Header(OneContig, <<FieldDef("END", "Integer", IntNumber(1)),
                            FieldDef("GT", "Integer", IntNumber(MaxArity))>>,
               <<FieldDef("GT", "String", TokNumber("G"))>>, <<"S1", "S2">>),
        Header(OneContig, <<FieldDef("AF", "Float", TokNumber("A"))>>, <<>>, <<"S1">>),
        Header(OneContig, <<>>, <<GtDef>>, <<>>)}
FieldRuns ==
  {<<h, Config(1, gt, NoPattern, NoPattern)>> : h \in FieldHeaders, gt \in GtOpts}

Init ==
  /\ \E run \in PlainRuns \cup FieldRuns : header = run[1] /\ cfg = run[2]
  /\ i = 0
  /\ out = <<>>
  /\ assembled = <<>>
  /\ pc = "loop"
  /\ err = "none"
  /\ call = NoCall
  /\ ret = NoRet

Next == LoopWrite \/ LoopRaise \/ LoopEnd

Spec == Init /\ [][Next]_vars

(* --------------------- direct calls of data_from_vcf_type -------------- *)
AlleleLists == {SubSeq(<<"A", "T", "C", "G", "N">>, 1, n) : n \in 2..MaxAlleles}
SynthCall(key, section, gt_opts, alleles) ==
  [fn |-> "data_from_vcf_type", key |-> key, section |-> section, gt_opts |-> gt_opts,
   alleles |-> alleles]
SynthHeader(key, section, t, n) ==
  IF section = "fmt" THEN Header(OneContig, <<>>, <<FieldDef(key, t, n)>>, <<"S1">>)
  ELSE Header(OneContig, <<FieldDef(key, t, n)>>, <<>>, <<"S1">>)

InitSynth ==
  /\ \E key \in {"GT", "DP"}, section \in {"fmt", "info"}, t \in Types, n \in Numbers,
        gt \in GtOpts, alleles \in AlleleLists :
       /\ header = SynthHeader(key, section, t, n)
       /\ call = SynthCall(key, section, gt, alleles)
  /\ cfg = Config(0, "None", NoPattern, NoPattern)
  /\ i = 0
  /\ out = <<>>
  /\ assembled = <<>>
  /\ pc = "call"
  /\ err = "none"
  /\ ret = NoRet

CallDataFromVcfType ==
  /\ pc = "call"
  /\ call.fn = "data_from_vcf_type"
  /\ ret' \in data_from_vcf_type(call.key, header, call.alleles, call.section, call.gt_opts)
  /\ pc' = "returned"
  /\ UNCHANGED <<header, cfg, i, out, assembled, err, call>>

SpecSynth == InitSynth /\ [][CallDataFromVcfType]_vars

(* ------------------------ direct calls of random_contig ---------------- *)
Strings(alphabet, lo, hi) == UNION {[1..n -> alphabet] : n \in lo..hi}
ContigNames == Strings({"a", "b"}, 1, MaxNameLen)
Patterns == {NoPattern} \cup {Pattern(p) : p \in Strings({"a", "."}, 0, MaxNameLen)}
ContigCall(excl, incl) ==
  [fn |-> "random_contig", contig_exclude |-> excl, contig_include |-> incl]

InitContig ==
  /\ \E S \in SUBSET ContigNames, excl \in Patterns, incl \in Patterns :
       /\ Cardinality(S) <= MaxContigs
       /\ header = Header([c \in S |-> 1], <<>>, <<>>, <<>>)
       /\ call = ContigCall(excl, incl)
  /\ cfg = Config(0, "None", NoPattern, NoPattern)
  /\ i = 0
  /\ out = <<>>
  /\ assembled = <<>>
  /\ pc = "call"
  /\ err = "none"
  /\ ret = NoRet

CallRandomContig ==
  /\ pc = "call"
  /\ call.fn = "random_contig"
  /\ ret' \in random_contig(header, call.contig_exclude, call.contig_include)
  /\ pc' = "returned"
  /\ UNCHANGED <<header, cfg, i, out, assembled, err, call>>

SpecContig == InitContig /\ [][CallRandomContig]_vars

(* ================================ claims =============================== *)
HasKey(defs, key) == \E j \in 1..Len(defs) : defs[j].key = key
ValueTypes == {"Integer", "Float", "Character", "String"}
Resolved(number) == number.isInt \/ number.tok \in {"A", "R"}
ExpectedLen(number, alleles) ==
  IF number.isInt THEN number.n
  ELSE IF number.tok = "A" THEN Len(alleles) - 1
  ELSE Len(alleles)
Covered(d) == d.key # "GT" /\ d.key # "END" /\ d.type \in ValueTypes /\ Resolved(d.number)

(* C1: in every written record, every INFO field and every per-sample field *)
(* other than the genotype, of type Integer, Float, Character or String,    *)
(* carries a tuple of k values for a fixed number k, of len(alleles) - 1    *)
(* values for number A and of len(alleles) values for number R.             *)
C1_FieldLengths ==
  \A k \in 1..Len(out) :
    /\ \A j \in 1..Len(header.info) :
         LET d == header.info[j]
         IN Covered(d) =>
              /\ d.key \in DOMAIN out[k].info
              /\ Len(out[k].info[d.key]) = ExpectedLen(d.number, out[k].alleles)
    /\ \A s \in 1..Len(header.samples), j \in 1..Len(header.formats) :
         LET d == header.formats[j]
         IN Covered(d) =>
              /\ d.key \in DOMAIN out[k].samples[header.samples[s]]
              /\ Len(out[k].samples[header.samples[s]][d.key])
                   = ExpectedLen(d.number, out[k].alleles)

C1_Witness ==
  /\ Len(out) = 1
  /\ Len(header.info) = 1
  /\ header.info[1] = FieldDef("DP", "String", TokNumber("A"))
  /\ Len(out[1].alleles) = 2
  /\ Len(out[1].info["DP"]) = 1

(* C2: in a HOM_REF run every genotype of every sample of every written   *)
(* record has len(alleles) elements, all 0; in a HOM_ALT run all 1.       *)
C2_HomGenotypes ==
  (cfg.gt_opts \in {"HOM_REF", "HOM_ALT"} /\ HasKey(header.formats, "GT")) =>
    \A k \in 1..Len(out), s \in 1..Len(header.samples) :
      LET gt == out[k].samples[header.samples[s]]["GT"]
      IN /\ Len(gt) = Len(out[k].alleles)
         /\ \A e \in 1..Len(gt) : gt[e] = (IF cfg.gt_opts = "HOM_REF" THEN 0 ELSE 1)

C2_Witness ==
  /\ cfg.gt_opts = "HOM_ALT"
  /\ Len(out) = 2
  /\ out[1].samples["S1"]["GT"] = <<1, 1>>
  /\ out[2].samples["S1"]["GT"] = <<1, 1>>

IsGenotypeCall ==
  pc = "returned" /\ call.fn = "data_from_vcf_type" /\ call.section = "fmt" /\ call.key = "GT"

(* C3: a HET genotype for a record of n >= 2 alleles is a tuple of n allele *)
(* indices in [0, n) with at least one 0 and at least one non-zero index,   *)
(* whatever combination is drawn and however it is shuffled.                *)
C3_HetGenotype ==
  (IsGenotypeCall /\ call.gt_opts = "HET" /\ Len(call.alleles) >= 2) =>
    /\ ret.kind = "ok"
    /\ Len(ret.val) = Len(call.alleles)
    /\ \A e \in 1..Len(ret.val) : ret.val[e] \in 0..(Len(call.alleles) - 1)
    /\ \E e \in 1..Len(ret.val) : ret.val[e] = 0
    /\ \E e \in 1..Len(ret.val) : ret.val[e] # 0

C3_Witness ==
  /\ IsGenotypeCall
  /\ call.gt_opts = "HET"
  /\ Len(call.alleles) = 3
  /\ ret = Ok(<<2, 0, 1>>)

IsContigCall == pc = "returned" /\ call.fn = "random_contig"
Matching(p) == {c \in DOMAIN header.contigs : Match(p, c)}

(* C4: random_contig called with both an include and an exclude pattern *)
(* raises the configuration error (ValueError) and returns no contig.   *)
C4_BothFilters ==
  (IsContigCall /\ call.contig_exclude.some /\ call.contig_include.some) =>
    ret.kind = "ValueError"

C4_Witness ==
  /\ IsContigCall
  /\ call.contig_exclude = Pattern(<<"a">>)
  /\ call.contig_include = Pattern(<<".">>)
  /\ DOMAIN header.contigs = {<<"a">>, <<"b">>}
  /\ ret.kind = "ValueError"

(* C5: random_contig called with only an include pattern that matches at  *)
(* least one contig name returns a contig whose name matches the pattern.  *)
C5_IncludeOnly ==
  (/\ IsContigCall
   /\ call.contig_include.some
   /\ ~call.contig_exclude.some
   /\ Matching(call.contig_include.pat) # {}) =>
    /\ ret.kind = "ok"
    /\ ret.val.name \in Matching(call.contig_include.pat)

(* C6: when the single supplied filter leaves no candidate (an include    *)
(* pattern matching no name, or an exclude pattern matching every name),  *)
(* random_contig raises the "no valid contigs" error.                     *)
C6_EmptyCandidates ==
  (/\ IsContigCall
   /\ \/ /\ call.contig_include.some
         /\ ~call.contig_exclude.some
         /\ Matching(call.contig_include.pat) = {}
      \/ /\ call.contig_exclude.some
         /\ ~call.contig_include.some
         /\ Matching(call.contig_exclude.pat) = DOMAIN header.contigs) =>
    ret.kind = "Exception"

(* C7: generate_data runs the passes one after another, each assembling     *)
(* one record and writing it: a run that ends normally has written exactly  *)
(* num_variants records in assembly order and raised nothing; a run in      *)
(* which pass i + 1 raises has written exactly the i records before it, and *)
(* nothing happens after a run has ended.                                   *)
C7_StateInv ==
  /\ out = assembled
  /\ Len(out) = i
  /\ pc = "done" => (i = cfg.num_variants /\ err = "none")
  /\ pc = "raised" => (i < cfg.num_variants /\ err # "none")
  /\ pc = "loop" => (i <= cfg.num_variants /\ err = "none")

C7_Driver ==
  /\ []C7_StateInv
  /\ [][/\ pc # "loop" => UNCHANGED vars
        /\ pc = "loop" =>
             \/ pc' = "loop" /\ i' = i + 1 /\ Len(out') = Len(out) + 1
                /\ SubSeq(out', 1, Len(out)) = out
             \/ pc' # "loop" /\ out' = out /\ i' = i]_vars

C7_Witness ==
  /\ pc = "raised"
  /\ cfg.num_variants = 2
  /\ Len(out) = 1
  /\ err = "TypeError"

UnknownMode == IsGenotypeCall /\ call.gt_opts \notin (GenotypeOption \cup {"None"})

(* C8 as stated: data_from_vcf_type called for the genotype with a mode *)
(* that is no GenotypeOption and not None raises and returns nothing.   *)
C8_UnknownModeRaises == UnknownMode => ret.kind # "ok"

(* C8 amended: such a mode is handled like None: the call returns a      *)
(* non-decreasing tuple of len(alleles) allele indices in [0, len(alleles)). *)
C8_UnknownModeIsRandom ==
  UnknownMode =>
    /\ ret.kind = "ok"
    /\ Len(ret.val) = Len(call.alleles)
    /\ \A e \in 1..Len(ret.val) : ret.val[e] \in 0..(Len(call.alleles) - 1)
    /\ \A e \in 1..(Len(ret.val) - 1) : ret.val[e] <= ret.val[e + 1]

C8_Witness ==
  /\ UnknownMode
  /\ call.gt_opts = "hom-var"
  /\ Len(call.alleles) = 3
  /\ ret = Ok(<<0, 1, 2>>)

IsValueCall == pc = "returned" /\ call.fn = "data_from_vcf_type" /\ call.key # "GT"
CalledDef == Lookup(SectionDefs(header, call.section), call.key)
ResolvedCall == Resolved(CalledDef.number)

(* C9: data_from_vcf_type called on a Flag field raises NotImplementedError *)
(* for every resolved multiplicity (fixed k >= 0, A, R).                    *)
C9_FlagRaises ==
  (IsValueCall /\ CalledDef.type = "Flag" /\ ResolvedCall) =>
    ret.kind = "NotImplementedError"

(* C10: data_from_vcf_type called on a field other than the genotype whose *)
(* type is none of the five VCF types raises NotImplementedError for every *)
(* resolved multiplicity.                                                  *)
C10_UnknownTypeRaises ==
  (IsValueCall /\ CalledDef.type \notin KnownTypes /\ ResolvedCall) =>
    ret.kind = "NotImplementedError"

====
